---- MODULE Spec2Model ----
(***************************************************************************)
(* kube-tagger: the watch loop of main() and the tag reconciliation of     *)
(* addAWSTags / hasTag / setTag / splitVol (main.go).                      *)
(*                                                                         *)
(* A Go string is a sequence of one-character strings.  One step of the    *)
(* model is the stretch of main between two blocking calls: the client is *)
(* set up, the watch is opened, an event is taken from the watch, the      *)
(* PersistentVolume lookup answers, EC2 reads the tags for DescribeVolumes,*)
(* its response is handled, EC2 executes a CreateTags call, its response   *)
(* is handled.  What the outside world answers is the input of the step,   *)
(* and other actors may change the tags of a volume between two steps.     *)
(***************************************************************************)
EXTENDS Naturals, Sequences, FiniteSets

VARIABLES
    dryrun,            \* the --dry-run flag
    remote,            \* EC2: volume id -> set of <<key, value>> tags, one per key
    eventsProcessed,   \* kubetagger_processed_events_total
    tagsAdded,         \* kubetagger_volume_tags_added
    tagsExisting,      \* kubetagger_volume_tags_existing
    volumesTagged,     \* kubetagger_volumes_tagged
    processingErrors,  \* kubetagger_errors
    status,            \* "running", or how the process ended
    pc,                \* where main is: "start", "watch" (Watch called), "take", "get",
                       \* "fetch", "described" (response on its way), "apply", "return"
    local,             \* the local variables of addAWSTags and the pending CreateTags answer
    ev,                \* history: the event being handled, or handled last (NoEvent if none)
    pre,               \* history: counters and tags as they were when that event was taken
    untouched,         \* history: the tags as they would be, had the event changed none
    calls,             \* history: the API calls made for that event so far
    sessions,          \* history: the AWS sessions asked for for that event so far
    checked,           \* history: the pairs handed to hasTag for that event so far
    again,             \* history: the volume of the event before, if this one repeats it
    extChanges,        \* history: number of tag changes made by other actors
    taken,             \* history: number of events taken from the watch channel
    applied            \* history: number of CreateTags calls that returned without error

vars == <<dryrun, remote, eventsProcessed, tagsAdded, tagsExisting, volumesTagged,
          processingErrors, status, pc, local, ev, pre, untouched, calls, sessions, checked,
          again,
          extChanges, taken, applied>>

-----------------------------------------------------------------------------
(* Bounds of the model *)

MaxEvents == 2

MaxExternal == 1

MaxStrLen == 7

MaxZoneLen == 3

-----------------------------------------------------------------------------
(* Strings *)

EQ == "="

LowerCase == {"a", "b", "c", "d", "e", "f", "g", "h", "i", "j", "k", "l", "m",
              "n", "o", "p", "q", "r", "s", "t", "u", "v", "w", "x", "y", "z"}

\* strings.Index: position (from 1) of the first occurrence of sep in s, 0 if none
Index(s, sep) ==
    LET hits == {i \in 1..(Len(s) + 1 - Len(sep)) : SubSeq(s, i, i + Len(sep) - 1) = sep}
    IN IF hits = {} THEN 0 ELSE CHOOSE i \in hits : \A j \in hits : i <= j

RECURSIVE Split(_, _)
\* strings.Split: an empty separator explodes s into its characters; otherwise
\* the pieces between successive non-overlapping occurrences of sep
Split(s, sep) ==
    IF sep = <<>>
    THEN [i \in 1..Len(s) |-> <<s[i]>>]
    ELSE LET m == Index(s, sep)
         IN IF m = 0
            THEN <<s>>
            ELSE <<SubSeq(s, 1, m - 1)>> \o Split(SubSeq(s, m + Len(sep), Len(s)), sep)

-----------------------------------------------------------------------------
(* The claim object and the world's answers *)

ProvisionerKey == "volume.beta.kubernetes.io/storage-provisioner"

SeparatorKey == "volume.beta.kubernetes.io/additional-resource-tags-separator"

TagsKey == "volume.beta.kubernetes.io/additional-resource-tags"

EBSProvisioner == "kubernetes.io/aws-ebs"

\* watch.Added, watch.Modified, watch.Deleted, watch.Error
EventTypes == {"ADDED", "MODIFIED", "DELETED", "ERROR"}

\* a call to the Kubernetes or EC2 API, as the program issued it
Call(op, region, vol, key, value, ok) ==
    [op |-> op, region |-> region, vol |-> vol, key |-> key, value |-> value, ok |-> ok]

\* the calls of one kind among cs, in the order they were issued
CallsOf(cs, op) == SelectSeq(cs, LAMBDA c : c.op = op)

\* the <<key, value>> pairs of the CreateTags calls among cs, in order
AppliedPairs(cs) ==
    LET a == CallsOf(cs, "CreateTags") IN [i \in 1..Len(a) |-> <<a[i].key, a[i].value>>]

-----------------------------------------------------------------------------
(* main.go, translated *)

\* the kind filter letting deleted events through as well
TriggersProcessingOrDeleted(type) == type = "ADDED" \/ type = "MODIFIED" \/ type = "DELETED"

\* main.go:145, the event kinds that are processed
TriggersProcessing(type) == type = "ADDED" \/ type = "MODIFIED"

\* isEBSVolume looking for the annotation key alone
isEBSVolumeAnyValue(ann) == ProvisionerKey \in DOMAIN ann

\* main.go:193-200
isEBSVolume(ann) == ProvisionerKey \in DOMAIN ann /\ ann[ProvisionerKey] = EBSProvisioner

\* main.go:164-169, the separator: "," unless the annotation overrides it
separatorOf(ann) == IF SeparatorKey \in DOMAIN ann THEN ann[SeparatorKey] ELSE <<",">>

\* main.go:165-173, the tag list: "" unless the annotation is present
tagsToAddOf(ann) == IF TagsKey \in DOMAIN ann THEN ann[TagsKey] ELSE <<>>

\* the dry-run flag ignored
ReconcilesAlways(dry) == TRUE

\* main.go:175-176, addAWSTags is called only outside dry-run mode
Reconciles(dry) == ~dry

\* splitVol stripping every trailing lowercase letter of the zone (`[a-z]+$`)
splitVolStripAll(vol) ==
    LET sp == Split(vol, <<"/">>)
    IN IF Len(sp) < 4
       THEN [ok |-> FALSE, region |-> <<>>, id |-> <<>>]
       ELSE LET zone == sp[3]
                kept == {n \in 0..Len(zone) : \A i \in (n + 1)..Len(zone) : zone[i] \in LowerCase}
            IN [ok |-> TRUE,
                region |-> SubSeq(zone, 1, CHOOSE n \in kept : \A m \in kept : n <= m),
                id |-> sp[4]]

\* main.go:300-306; ok is FALSE where sp[2] or sp[3] is out of range (a panic)
splitVol(vol) ==
    LET sp == Split(vol, <<"/">>)
    IN IF Len(sp) < 4
       THEN [ok |-> FALSE, region |-> <<>>, id |-> <<>>]
       ELSE LET zone == sp[3]
            IN [ok |-> TRUE,
                region |-> IF Len(zone) > 0 /\ zone[Len(zone)] \in LowerCase
                           THEN SubSeq(zone, 1, Len(zone) - 1)
                           ELSE zone,
                id |-> sp[4]]

\* hasTag comparing the key alone
hasTagKeyOnly(tags, key, value) == \E t \in tags : t[1] = key

\* main.go:283-292, some fetched tag has this key and this value
hasTag(tags, key, value) == \E t \in tags : t[1] = key /\ t[2] = value

\* the malformed-token test letting tokens with several "=" through
IsMalformedShort(t) == Len(t) < 2

\* main.go:235, a token that does not split on "=" into exactly two parts
IsMalformed(t) == Len(t) # 2

\* CreateTags replacing the whole tag set of the volume
CreateTagsReplacingAll(tags, key, value) == {<<key, value>>}

\* EC2 CreateTags: the tag is created, or overwrites the tag of the same key
CreateTags(tags, key, value) == {t \in tags : t[1] # key} \cup {<<key, value>>}


\* the local variables of addAWSTags before it is called; ok is the answer of EC2 to
\* the call in flight
NoLocal ==
    [tags |-> <<>>, i |-> 0, fetched |-> {}, region |-> <<>>, vol |-> <<>>,
     tagAdded |-> FALSE, ok |-> TRUE]

\* the volume counted whether or not a tag was added
countVolumeAlways(st, tagAdded) == [st EXCEPT !.volumesTagged = @ + 1]

\* main.go:246-248, the volume is counted once if a tag was added
countVolume(st, tagAdded) == IF tagAdded THEN [st EXCEPT !.volumesTagged = @ + 1] ELSE st

RECURSIVE tagLoopBreak(_, _)
\* the loop leaving at the first malformed token (break for continue)
tagLoopBreak(st, i) ==
    IF i > Len(st.local.tags)
    THEN LET done == [st EXCEPT !.pc = "take", !.local.i = i]
         IN IF st.local.tagAdded THEN [done EXCEPT !.volumesTagged = @ + 1] ELSE done
    ELSE LET t == Split(st.local.tags[i], <<EQ>>)
         IN IF Len(t) # 2
            THEN tagLoopBreak([st EXCEPT !.processingErrors = @ + 1], Len(st.local.tags) + 1)
            ELSE LET seen == [st EXCEPT !.checked = Append(@, <<t[1], t[2]>>)]
                 IN IF \E x \in seen.local.fetched : x[1] = t[1] /\ x[2] = t[2]
                    THEN tagLoopBreak([seen EXCEPT !.tagsExisting = @ + 1], i + 1)
                    ELSE [seen EXCEPT !.pc = "apply", !.local.i = i, !.local.tagAdded = TRUE]

RECURSIVE tagLoopRefreshing(_, _)
\* the loop deciding each pair against the tags as they are when it is reached
tagLoopRefreshing(st, i) ==
    IF i > Len(st.local.tags)
    THEN LET done == [st EXCEPT !.pc = "take", !.local.i = i]
         IN IF st.local.tagAdded THEN [done EXCEPT !.volumesTagged = @ + 1] ELSE done
    ELSE LET t == Split(st.local.tags[i], <<EQ>>)
         IN IF Len(t) # 2
            THEN tagLoopRefreshing([st EXCEPT !.processingErrors = @ + 1], i + 1)
            ELSE LET seen == [st EXCEPT !.checked = Append(@, <<t[1], t[2]>>)]
                 IN IF \E x \in seen.remote[seen.local.vol] : x[1] = t[1] /\ x[2] = t[2]
                    THEN tagLoopRefreshing([seen EXCEPT !.tagsExisting = @ + 1], i + 1)
                    ELSE [seen EXCEPT !.pc = "apply", !.local.i = i, !.local.tagAdded = TRUE]

RECURSIVE tagLoop(_, _)
\* main.go:233-248, from token i on, up to the next CreateTags call (setTag,
\* main.go:241-242) or to the end of addAWSTags; local.fetched is resp.Volumes[0].Tags
tagLoop(st, i) ==
    IF i > Len(st.local.tags)
    THEN countVolume([st EXCEPT !.pc = "take", !.local.i = i], st.local.tagAdded)
    ELSE LET t == Split(st.local.tags[i], <<EQ>>)
         IN IF IsMalformed(t)
            THEN tagLoop([st EXCEPT !.processingErrors = @ + 1], i + 1)
            ELSE LET seen == [st EXCEPT !.checked = Append(@, <<t[1], t[2]>>)]
                 IN IF hasTag(seen.local.fetched, t[1], t[2])
                    THEN tagLoop([seen EXCEPT !.tagsExisting = @ + 1], i + 1)
                    ELSE [seen EXCEPT !.pc = "apply", !.local.i = i, !.local.tagAdded = TRUE]

\* EC2 executes the CreateTags call of setTag (main.go:255-266) for the pair of token
\* local.i and answers ok; the response is on its way
createTagsServed(st, ok) ==
    LET t == Split(st.local.tags[st.local.i], <<EQ>>)
        called == [st EXCEPT !.calls = Append(@, Call("CreateTags", st.local.region,
                                                        st.local.vol, t[1], t[2], ok)),
                             !.pc = "return",
                             !.local.ok = ok]
    IN IF ok
       THEN [called EXCEPT !.remote[st.local.vol] = CreateTags(@, t[1], t[2])]
       ELSE called

\* setTag counting the tag whatever CreateTags answered
setTagCountsAttempt(st, ok) ==
    IF ~ok
    THEN [st EXCEPT !.status = "fatal", !.tagsAdded = @ + 1]
    ELSE [st EXCEPT !.tagsAdded = @ + 1]

\* setTag logging the failure of CreateTags and returning false
setTagNotFatal(st, ok) == IF ~ok THEN st ELSE [st EXCEPT !.tagsAdded = @ + 1]

\* main.go:267-275, setTag once CreateTags has answered: log.Fatal, or the tag is counted
setTag(st, ok) ==
    IF ~ok THEN [st EXCEPT !.status = "fatal"] ELSE [st EXCEPT !.tagsAdded = @ + 1]

\* main.go:241-245, the response of CreateTags is handled and the loop goes on
tagsCreated(st) ==
    LET back == setTag([st EXCEPT !.pc = "take"], st.local.ok)
    IN IF back.status # "running" THEN back ELSE tagLoop(back, st.local.i + 1)

\* DescribeVolumes failing ends the process
describeVolumesFailedFatal(st) == [st EXCEPT !.status = "fatal"]

\* main.go:228-232, DescribeVolumes failed: the error is counted, addAWSTags returns
describeVolumesFailed(st) == [st EXCEPT !.processingErrors = @ + 1]

\* EC2 serves the DescribeVolumes call of main.go:227 and answers ok, with the tags
\* the volume has at that moment; the response is on its way
describeVolumesServed(st, ok) ==
    LET asked == [st EXCEPT !.calls = Append(@, Call("DescribeVolumes", st.local.region,
                                                       st.local.vol, <<>>, <<>>, ok)),
                            !.pc = "described",
                            !.local.ok = ok]
    IN IF ok THEN [asked EXCEPT !.local.fetched = st.remote[st.local.vol]] ELSE asked

\* main.go:227-248, the response of DescribeVolumes is handled: the error branch, or
\* the loop over the tokens up to the first CreateTags call
volumesDescribed(st) ==
    LET back == [st EXCEPT !.pc = "take"]
    IN IF ~st.local.ok THEN describeVolumesFailed(back) ELSE tagLoop(back, 1)

\* main.go:206-226, addAWSTags up to the DescribeVolumes call; sessOK is whether
\* session.NewSession succeeds (main.go:212-217, panic(err) otherwise)
addAWSTags(st, awsTags, awsVolumeID, separator, sessOK) ==
    LET sv == splitVol(awsVolumeID)
        sess == [st EXCEPT !.sessions = Append(@, [region |-> sv.region, ok |-> sessOK])]
    IN IF ~sv.ok
       THEN [st EXCEPT !.status = "panic"]
       ELSE IF ~sessOK
       THEN [sess EXCEPT !.status = "panic"]
       ELSE [sess EXCEPT !.pc = "fetch",
                       !.local = [NoLocal EXCEPT !.region = sv.region,
                                                 !.vol = sv.id,
                                                 !.tags = Split(awsTags, separator)]]

\* main.go:109-130, the start of main up to the Watch call: the configuration is
\* built in the cluster or, with --local, from the kubeconfig file, and the
\* clientset is created; log.Fatal when one of them fails
clientBuilt(st, isLocal, inClusterOK, kubeconfigOK, clientsetOK) ==
    IF ~isLocal /\ ~inClusterOK
    THEN [st EXCEPT !.status = "fatal"]
    ELSE IF isLocal /\ ~kubeconfigOK
    THEN [st EXCEPT !.status = "fatal"]
    ELSE IF ~clientsetOK
    THEN [st EXCEPT !.status = "fatal"]
    ELSE [st EXCEPT !.pc = "watch"]

\* main.go:132-137, Watch answers: log.Fatal when it failed, else the loop begins
watchOpened(st, ok) ==
    IF ~ok THEN [st EXCEPT !.status = "fatal"] ELSE [st EXCEPT !.pc = "take"]

\* the payload check skipping the event
unexpectedPayloadSkipped(st) == st

\* main.go:141-144, the payload is not a PersistentVolumeClaim: log.Fatal
unexpectedPayload(st) == [st EXCEPT !.status = "fatal"]

\* the lookup failure ending the process
lookupFailedFatal(st) == [st EXCEPT !.status = "fatal"]

\* main.go:156-160, PersistentVolumes().Get failed: the error is counted, continue
lookupFailed(st) == [st EXCEPT !.processingErrors = @ + 1]

\* main.go:139-155, an event is taken from the channel: it is counted, its payload
\* checked and its kind tested, up to the PersistentVolumes().Get call
eventTaken(st, e) ==
    LET counted == [st EXCEPT !.eventsProcessed = @ + 1, !.calls = <<>>,
                              !.sessions = <<>>, !.checked = <<>>,
                              !.pc = "take", !.local = NoLocal]
    IN IF ~e.isPVC
       THEN unexpectedPayload(counted)
       ELSE IF ~TriggersProcessing(e.type)
       THEN counted
       ELSE [counted EXCEPT !.pc = "get"]

\* main.go:155-185, PersistentVolumes().Get answers pv for the claim of event e, up
\* to the DescribeVolumes call of addAWSTags or to the end of the iteration
volumeLookedUp(st, dry, e, pv, sessOK) ==
    LET looked == [st EXCEPT !.calls =
                      Append(@, Call("GetPV", <<>>, <<>>, <<>>, <<>>, pv.kind # "notfound")),
                             !.pc = "take"]
    IN IF pv.kind = "notfound"
       THEN lookupFailed(looked)
       ELSE IF pv.kind # "ebs"
       THEN [looked EXCEPT !.status = "panic"]
       ELSE IF ~isEBSVolume(e.ann)
       THEN looked
       ELSE IF tagsToAddOf(e.ann) = <<>>
       THEN looked
       ELSE IF ~Reconciles(dry)
       THEN looked
       ELSE addAWSTags(looked, tagsToAddOf(e.ann), pv.id, separatorOf(e.ann), sessOK)

RECURSIVE finished(_)
\* the state in which the iteration in progress ends when every call still to come
\* succeeds and nobody else touches the tags
finished(st) ==
    IF st.status # "running" \/ st.pc = "take" THEN st
    ELSE IF st.pc = "fetch" THEN finished(describeVolumesServed(st, TRUE))
    ELSE IF st.pc = "described" THEN finished(volumesDescribed(st))
    ELSE IF st.pc = "apply" THEN finished(createTagsServed(st, TRUE))
    ELSE finished(tagsCreated(st))

\* main.go:139-187, one whole iteration of the loop for event e when the lookup
\* answers pv, the session is created, every EC2 call succeeds and nobody else
\* touches the tags meanwhile
handleEvent(st, dry, e, pv) ==
    LET begun == eventTaken(st, e)
    IN IF begun.pc = "get" THEN finished(volumeLookedUp(begun, dry, e, pv, TRUE)) ELSE begun

-----------------------------------------------------------------------------
(* The inputs: claims, volumes and the answers of the APIs *)

\* the EBS volumes that exist, by volume id
VolNames == {<<"v", "1">>, <<"v", "2">>}

\* "aws://" zone "/" id, the volume URL Kubernetes reports
VolURL(zone, id) == <<"a", "w", "s", ":", "/", "/">> \o zone \o <<"/">> \o id

\* the VolumeID of a PersistentVolume: the URL form, or the bare id Kubernetes also accepts
VolumeIDs == {VolURL(<<"r", "1", "a">>, v) : v \in VolNames} \cup {<<"v", "1">>}

\* values of the tag-list annotation
TagLists ==
    { <<>>,
      <<"k", "=", "v">>,
      <<"k", "=", "v", ",", "j", "=", "w">>,
      <<"k", "=", "v", ",", "k", "=", "w">>,
      <<"k", "=", "v", ",", "k", "=", "v">>,
      <<"k", ",", "k", "=", "v">>,
      <<"k", "=", "v", ",">>,
      <<"j", "=", "w", ";", "k", "=", "v">> }

\* annotations of a claim: the keys that are present, with their values
Ann(prov, sep, tags) ==
    [k \in {ProvisionerKey : x \in prov} \cup {SeparatorKey : x \in sep} \cup {TagsKey : x \in tags}
       |-> IF k = ProvisionerKey THEN CHOOSE x \in prov : TRUE
           ELSE IF k = SeparatorKey THEN CHOOSE x \in sep : TRUE
           ELSE CHOOSE x \in tags : TRUE]

\* no annotations
NoAnn == Ann({}, {}, {})

\* claims of the EBS provisioner: without a tag list, with each tag list and the
\* default separator, and with the separator ";"
EBSClaims ==
    {Ann({EBSProvisioner}, {}, tags) : tags \in {{}} \cup {{x} : x \in TagLists}}
        \cup {Ann({EBSProvisioner}, {<<";">>}, {<<"j", "=", "w", ";", "k", "=", "v">>})}

\* claims of another provisioner, or of none
OtherClaims ==
    {NoAnn,
     Ann({}, {}, {<<"k", "=", "v">>}),
     Ann({"kubernetes.io/gce-pd"}, {}, {<<"k", "=", "v">>})}

Claims == EBSClaims \cup OtherClaims

\* the claims with which every answer of the lookup is tried
SomeClaims == OtherClaims \cup {Ann({EBSProvisioner}, {}, {<<"k", "=", "v">>})}

\* the answers of PersistentVolumes().Get
PVAnswers ==
    {[kind |-> "notfound", id |-> <<>>], [kind |-> "other", id |-> <<>>]}
        \cup {[kind |-> "ebs", id |-> v] : v \in VolumeIDs}

\* no lookup was made
NotQueried == [kind |-> "unqueried", id |-> <<>>]

\* an event: its kind, whether its payload is a claim, the annotations of the claim,
\* and what the lookup of the claim's volume answered
Event(type, isPVC, ann, pv) == [type |-> type, isPVC |-> isPVC, ann |-> ann, pv |-> pv]

NoEvent == Event("NONE", FALSE, NoAnn, NotQueried)

\* the tags and the counters, as they are
Before ==
    [remote |-> remote, eventsProcessed |-> eventsProcessed, tagsAdded |-> tagsAdded,
     tagsExisting |-> tagsExisting, volumesTagged |-> volumesTagged,
     processingErrors |-> processingErrors, extChanges |-> extChanges]

\* the program's state, as the steps of the loop take it
Now ==
    [remote |-> remote, eventsProcessed |-> eventsProcessed, tagsAdded |-> tagsAdded,
     tagsExisting |-> tagsExisting, volumesTagged |-> volumesTagged,
     processingErrors |-> processingErrors, status |-> status, pc |-> pc, local |-> local,
     calls |-> calls, sessions |-> sessions, checked |-> checked]

\* the events the watch delivers: without a claim object, of every kind for the
\* claims of SomeClaims, and ADDED for every claim
Deliveries ==
    {Event(t, FALSE, NoAnn, NotQueried) : t \in EventTypes}
        \cup {Event(t, TRUE, a, NotQueried) : t \in EventTypes, a \in SomeClaims}
        \cup {Event("ADDED", TRUE, a, NotQueried) : a \in Claims}

\* the answers of the lookup tried for a claim: all of them for the claims of
\* SomeClaims, an EBS volume with a URL for the others
PVsFor(ann) ==
    IF ann \in SomeClaims
    THEN PVAnswers
    ELSE {pv \in PVAnswers : pv.kind = "ebs" /\ splitVol(pv.id).ok}

-----------------------------------------------------------------------------
(* The state machine *)

Init ==
    /\ dryrun \in BOOLEAN
    /\ remote = [v \in VolNames |-> {}]
    /\ eventsProcessed = 0
    /\ tagsAdded = 0
    /\ tagsExisting = 0
    /\ volumesTagged = 0
    /\ processingErrors = 0
    /\ status = "running"
    /\ pc = "start"
    /\ local = NoLocal
    /\ ev = NoEvent
    /\ calls = <<>>
    /\ sessions = <<>>
    /\ checked = <<>>
    /\ again = NotQueried
    /\ extChanges = 0
    /\ taken = 0
    /\ applied = 0
    /\ untouched = remote
    /\ pre = Before

\* the program is in state st after the step
Stepped(st) ==
    /\ remote' = st.remote
    /\ eventsProcessed' = st.eventsProcessed
    /\ tagsAdded' = st.tagsAdded
    /\ tagsExisting' = st.tagsExisting
    /\ volumesTagged' = st.volumesTagged
    /\ processingErrors' = st.processingErrors
    /\ status' = st.status
    /\ pc' = st.pc
    /\ local' = st.local
    /\ calls' = st.calls
    /\ sessions' = st.sessions
    /\ checked' = st.checked

\* main.go:109-130, main starts: the configuration and the clientset are built, or not
ClientBuilt ==
    /\ status = "running"
    /\ pc = "start"
    /\ \E isLocal, inClusterOK, kubeconfigOK, clientsetOK \in BOOLEAN :
          \E st \in {clientBuilt(Now, isLocal, inClusterOK, kubeconfigOK, clientsetOK)} :
              Stepped(st)
    /\ UNCHANGED <<dryrun, ev, pre, untouched, again, extChanges, taken, applied>>

\* main.go:132, Watch answers: the watch is open, or could not be opened
WatchOpened ==
    /\ status = "running"
    /\ pc = "watch"
    /\ \E ok \in BOOLEAN : \E st \in {watchOpened(Now, ok)} : Stepped(st)
    /\ UNCHANGED <<dryrun, ev, pre, untouched, again, extChanges, taken, applied>>

\* the event before this one was reconciled to its end, every call succeeding and
\* nobody else touching the tags since it was taken
CleanPass ==
    /\ ev # NoEvent
    /\ pc = "take"
    /\ extChanges = pre.extChanges
    /\ \E i \in DOMAIN calls : calls[i].op = "DescribeVolumes"
    /\ \A i \in DOMAIN calls : calls[i].ok

\* event d is taken from the channel
Taken(d) ==
    /\ \E st \in {eventTaken(Now, d)} : Stepped(st)
    /\ ev' = d
    /\ pre' = Before
    /\ untouched' = remote
    /\ taken' = taken + 1
    /\ again' = IF CleanPass /\ d.type = ev.type /\ d.isPVC = ev.isPVC /\ d.ann = ev.ann
                THEN ev.pv
                ELSE NotQueried
    /\ UNCHANGED <<dryrun, extChanges, applied>>

\* main.go:139, the loop takes the next event from the watch channel
TakeEvent ==
    /\ status = "running"
    /\ pc = "take"
    /\ eventsProcessed < MaxEvents
    /\ \E d \in Deliveries : Taken(d)

\* the lookup answers pv and, if addAWSTags is reached, the session is created or not
Got(pv, sessOK) ==
    /\ \E st \in {volumeLookedUp(Now, dryrun, ev, pv, sessOK)} : Stepped(st)
    /\ ev' = [ev EXCEPT !.pv = pv]
    /\ again' = IF again = pv THEN pv ELSE NotQueried
    /\ UNCHANGED <<dryrun, pre, untouched, extChanges, taken, applied>>

\* main.go:155, PersistentVolumes().Get answers
GetAnswered ==
    /\ status = "running"
    /\ pc = "get"
    /\ \E pv \in PVsFor(ev.ann), sessOK \in BOOLEAN : Got(pv, sessOK)

\* main.go:227, EC2 serves DescribeVolumes; it fails for a volume that does not exist
FetchServed ==
    /\ status = "running"
    /\ pc = "fetch"
    /\ \E ok \in (IF local.vol \in VolNames THEN BOOLEAN ELSE {FALSE}) :
          \E st \in {describeVolumesServed(Now, ok)} : Stepped(st)
    /\ UNCHANGED <<dryrun, ev, pre, untouched, again, extChanges, taken, applied>>

\* main.go:227-248, the response of DescribeVolumes arrives
FetchReturned ==
    /\ status = "running"
    /\ pc = "described"
    /\ \E st \in {volumesDescribed(Now)} : Stepped(st)
    /\ UNCHANGED <<dryrun, ev, pre, untouched, again, extChanges, taken, applied>>

\* main.go:266, EC2 executes CreateTags, or refuses to
ApplyServed ==
    /\ status = "running"
    /\ pc = "apply"
    /\ \E ok \in BOOLEAN :
          \E st \in {createTagsServed(Now, ok)} : Stepped(st)
    /\ UNCHANGED <<dryrun, ev, pre, untouched, again, extChanges, taken, applied>>

\* main.go:266-275, the response of CreateTags arrives
ApplyReturned ==
    /\ status = "running"
    /\ pc = "return"
    /\ \E st \in {tagsCreated(Now)} : Stepped(st)
    /\ applied' = IF local.ok THEN applied + 1 ELSE applied
    /\ UNCHANGED <<dryrun, ev, pre, untouched, again, extChanges, taken>>

\* main.go:139, the watch channel is closed: the loop ends and main returns
WatchClosed ==
    /\ status = "running"
    /\ pc = "take"
    /\ status' = "returned"
    /\ ev' = NoEvent
    /\ pre' = Before
    /\ untouched' = remote
    /\ calls' = <<>>
    /\ sessions' = <<>>
    /\ checked' = <<>>
    /\ local' = NoLocal
    /\ again' = NotQueried
    /\ UNCHANGED <<dryrun, remote, eventsProcessed, tagsAdded, tagsExisting, volumesTagged,
                   processingErrors, pc, extChanges, taken, applied>>

\* the exit status of the process: main returned (0), log.Fatal (os.Exit(1)), or an
\* unrecovered panic (2)
ExitCode(how) == IF how = "returned" THEN 0 ELSE IF how = "fatal" THEN 1 ELSE 2

\* keys and values other actors write
ExtKeys == {<<"k">>}

ExtValues == {<<"w">>}

\* what another actor does to a tag: it deletes it, or writes it with a value
ExtOps == {[delete |-> TRUE, value |-> <<>>]} \cup {[delete |-> FALSE, value |-> v] : v \in ExtValues}

\* the tags after another actor did op to the tag with this key
ExtChange(tags, key, op) ==
    IF op.delete THEN {t \in tags : t[1] # key} ELSE CreateTags(tags, key, op.value)

\* another actor changes a tag of one of the volumes vols
TagChanged(vols) ==
    /\ extChanges < MaxExternal
    /\ extChanges' = extChanges + 1
    /\ \E vol \in vols, key \in ExtKeys, op \in ExtOps :
          /\ remote' = [remote EXCEPT ![vol] = ExtChange(@, key, op)]
          /\ remote' # remote
          /\ IF pc \in {"start", "watch", "take"}
             THEN /\ ev' = NoEvent
                  /\ pre' = [Before EXCEPT !.remote = remote', !.extChanges = extChanges']
                  /\ untouched' = remote'
                  /\ calls' = <<>>
                  /\ sessions' = <<>>
                  /\ checked' = <<>>
                  /\ local' = NoLocal
             ELSE /\ untouched' = [untouched EXCEPT ![vol] = ExtChange(@, key, op)]
                  /\ UNCHANGED <<ev, pre, calls, sessions, checked, local>>
    /\ again' = NotQueried
    /\ UNCHANGED <<dryrun, eventsProcessed, tagsAdded, tagsExisting, volumesTagged,
                   processingErrors, status, pc, taken, applied>>

\* another actor changes a tag of a volume, between two events or between two steps
\* of one
ExternalTagChange == TagChanged(VolNames)

Next ==
    \/ ClientBuilt
    \/ WatchOpened
    \/ TakeEvent
    \/ GetAnswered
    \/ FetchServed
    \/ FetchReturned
    \/ ApplyServed
    \/ ApplyReturned
    \/ WatchClosed
    \/ ExternalTagChange

Spec == Init /\ [][Next]_vars

-----------------------------------------------------------------------------
(* The reconciliation of one claim, over every short tag list and separator *)

Chars == {"k", EQ, ","}

RECURSIVE StringsOfLen(_)
StringsOfLen(n) ==
    IF n = 0 THEN {<<>>} ELSE {Append(s, c) : s \in StringsOfLen(n - 1), c \in Chars}

\* the strings over Chars of at most n characters
Strings(n) == UNION {StringsOfLen(m) : m \in 0..n}

\* separators: the default, "=", the empty string and a separator of two characters
ParseSeparators == {{}, {<<EQ>>}, {<<>>}, {<<",", ",">>}}

\* an ADDED event for an EBS claim with any tag list and separator
ParseDeliveries ==
    {Event("ADDED", TRUE, Ann({EBSProvisioner}, sep, {s}), NotQueried) :
        s \in Strings(MaxStrLen), sep \in ParseSeparators}

\* the volume carries no tag, or the tag k=k
ParseInit ==
    /\ dryrun \in BOOLEAN
    /\ remote \in {[v \in VolNames |-> {}],
                   [v \in VolNames |-> IF v = <<"v", "1">> THEN {<<(<<"k">>), (<<"k">>)>>} ELSE {}]}
    /\ eventsProcessed = 0
    /\ tagsAdded = 0
    /\ tagsExisting = 0
    /\ volumesTagged = 0
    /\ processingErrors = 0
    /\ status = "running"
    /\ pc = "start"
    /\ local = NoLocal
    /\ ev = NoEvent
    /\ calls = <<>>
    /\ sessions = <<>>
    /\ checked = <<>>
    /\ again = NotQueried
    /\ extChanges = 0
    /\ taken = 0
    /\ applied = 0
    /\ untouched = remote
    /\ pre = Before

\* the first event is taken
TakeParseEvent ==
    /\ status = "running"
    /\ pc = "take"
    /\ eventsProcessed = 0
    /\ \E d \in ParseDeliveries : Taken(d)

\* the claim is bound to volume v1
ParseGetAnswered ==
    /\ status = "running"
    /\ pc = "get"
    /\ Got([kind |-> "ebs", id |-> VolURL(<<"r", "1", "a">>, <<"v", "1">>)], TRUE)

\* another actor changes a tag of volume v1 while the claim is reconciled
ParseTagChange ==
    /\ pc \notin {"start", "watch", "take"}
    /\ TagChanged({<<"v", "1">>})

ParseNext ==
    \/ ClientBuilt
    \/ WatchOpened
    \/ TakeParseEvent
    \/ ParseGetAnswered
    \/ FetchServed
    \/ FetchReturned
    \/ ApplyServed
    \/ ApplyReturned
    \/ ParseTagChange

ParseSpec == ParseInit /\ [][ParseNext]_vars

-----------------------------------------------------------------------------
(* The decomposition of the volume identifier, over every short zone *)

\* characters of a zone: lowercase letters, a digit, an uppercase letter
ZoneChars == {"e", "u", "1", "B"}

RECURSIVE ZonesOfLen(_)
ZonesOfLen(n) ==
    IF n = 0 THEN {<<>>} ELSE {Append(s, c) : s \in ZonesOfLen(n - 1), c \in ZoneChars}

\* the zones of at most n characters
Zones(n) == UNION {ZonesOfLen(m) : m \in 0..n}

Schemes == {<<"a", "w", "s">>, <<"x">>}

\* aws://eu-west-1b/vol-0123456789abcdef0, an identifier as Kubernetes reports it
\* (the comment above splitVol); no such volume exists here
ExampleVolumeID ==
    <<"a", "w", "s", ":", "/", "/", "e", "u", "-", "w", "e", "s", "t", "-", "1", "b", "/",
      "v", "o", "l", "-", "0", "1", "2", "3", "4", "5", "6", "7", "8", "9",
      "a", "b", "c", "d", "e", "f", "0">>

\* volume identifiers scheme://zone/volume-id
SplitVolumeIDs ==
    {s \o <<":", "/", "/">> \o z \o <<"/">> \o v :
        s \in Schemes, z \in Zones(MaxZoneLen), v \in VolNames}
        \cup {ExampleVolumeID}

\* an ADDED event for an EBS claim with the tag list k=v
SplitDelivery ==
    Event("ADDED", TRUE, Ann({EBSProvisioner}, {}, {<<"k", "=", "v">>}), NotQueried)

\* the run is not a dry run
SplitInit == Init /\ dryrun = FALSE

\* the first event is taken
TakeSplitEvent ==
    /\ status = "running"
    /\ pc = "take"
    /\ eventsProcessed = 0
    /\ Taken(SplitDelivery)

\* the claim is bound to an EBS volume with any of the identifiers
SplitGetAnswered ==
    /\ status = "running"
    /\ pc = "get"
    /\ \E id \in SplitVolumeIDs, sessOK \in BOOLEAN : Got([kind |-> "ebs", id |-> id], sessOK)

\* another actor changes a tag of a volume while the claim is reconciled
SplitTagChange ==
    /\ pc \notin {"start", "watch", "take"}
    /\ TagChanged(VolNames)

SplitNext ==
    \/ ClientBuilt
    \/ WatchOpened
    \/ TakeSplitEvent
    \/ SplitGetAnswered
    \/ FetchServed
    \/ FetchReturned
    \/ ApplyServed
    \/ ApplyReturned
    \/ SplitTagChange

SplitSpec == SplitInit /\ [][SplitNext]_vars

-----------------------------------------------------------------------------
(* The vocabulary of the properties, read off the event and the call history *)

Range(f) == {f[i] : i \in DOMAIN f}

\* an event was taken and has been handled to its end
IsEvent == ev # NoEvent /\ pc = "take"

\* the event is an added or modified event that carries a claim
Triggering == IsEvent /\ ev.isPVC /\ ev.type \in {"ADDED", "MODIFIED"}

\* the claim carries the provisioner-marker annotation with the supported backend
HasEBSMarker(e) ==
    \E k \in DOMAIN e.ann : k = ProvisionerKey /\ e.ann[k] = "kubernetes.io/aws-ebs"

\* the tag list the claim declares, "" if it declares none
TagListOf(e) == IF \E k \in DOMAIN e.ann : k = TagsKey THEN e.ann[TagsKey] ELSE <<>>

\* the separator the claim declares, "," if it declares none
SeparatorFor(e) == IF \E k \in DOMAIN e.ann : k = SeparatorKey THEN e.ann[SeparatorKey] ELSE <<",">>

\* the tokens of the tag list
TokensOf(e) == Split(TagListOf(e), SeparatorFor(e))

\* the number of "=" in a token
CountEq(tok) == Cardinality({i \in 1..Len(tok) : tok[i] = EQ})

\* a token with exactly one "="
WellFormed(tok) == CountEq(tok) = 1

\* the key and the value of a well-formed token
PairOf(tok) ==
    LET i == CHOOSE i \in 1..Len(tok) : tok[i] = EQ
    IN <<SubSeq(tok, 1, i - 1), SubSeq(tok, i + 1, Len(tok))>>

\* the pairs the tag list declares, in list order
ParsedPairs(e) ==
    LET good == SelectSeq(TokensOf(e), WellFormed) IN [i \in 1..Len(good) |-> PairOf(good[i])]

\* the volume id of the claim's volume
TargetVol(e) == splitVol(e.pv.id).id

\* the tags DescribeVolumes returned for the event
Fetched(e) == local.fetched

\* the declared pairs the fetched tags lack, in list order
Missing(e) == SelectSeq(ParsedPairs(e), LAMBDA p : p \notin Fetched(e))

\* the event reached the tag list: added or modified, volume found, EBS claim, tag list not empty
ReachedTagList ==
    /\ Triggering
    /\ ev.pv.kind = "ebs"
    /\ HasEBSMarker(ev)
    /\ TagListOf(ev) # <<>>

\* DescribeVolumes was called and answered
FetchSucceeded == \E i \in DOMAIN calls : calls[i].op = "DescribeVolumes" /\ calls[i].ok

\* DescribeVolumes was called and failed
FetchFailed == \E i \in DOMAIN calls : calls[i].op = "DescribeVolumes" /\ ~calls[i].ok

\* a CreateTags call failed
ApplyFailed == \E i \in DOMAIN calls : calls[i].op = "CreateTags" /\ ~calls[i].ok

\* the event reached reconciliation
Reconciled == ReachedTagList /\ ~dryrun /\ FetchSucceeded

\* the CreateTags calls of the event
Applies == CallsOf(calls, "CreateTags")

-----------------------------------------------------------------------------
(* Properties *)

\* C1, as stated: for every event that reaches reconciliation, the pairs for which
\* an apply call is issued are exactly the declared pairs the fetched tag set lacks
C1_AppliedIsExactlyMissing ==
    Reconciled => Range(AppliedPairs(calls)) = Range(Missing(ev))

\* C1, amended: for every event that reaches reconciliation, the apply calls are
\* issued on the claim's volume for the declared pairs the fetched tag set lacks
\* (key and value both compared), in list order, up to and including the first
\* call that fails; when no call fails, for exactly those pairs
C1_AppliedIsMissingUntilFailure ==
    Reconciled =>
        LET a == AppliedPairs(calls)
            m == Missing(ev)
        IN /\ Len(a) <= Len(m)
           /\ a = SubSeq(m, 1, Len(a))
           /\ \A i \in 1..Len(a) : Applies[i].vol = TargetVol(ev)
           /\ \A i \in 1..(Len(a) - 1) : Applies[i].ok
           /\ Len(a) < Len(m) => Len(a) > 0 /\ ~Applies[Len(a)].ok
           /\ ~ApplyFailed => Range(a) = Range(Missing(ev))

\* C1, witness: a declared pair whose key the volume carried with another value was
\* applied, and a declared pair the volume carried was not
C1_Witness ==
    /\ Reconciled
    /\ ~ApplyFailed
    /\ \E p \in Range(ParsedPairs(ev)) :
          /\ \E t \in Fetched(ev) : t[1] = p[1] /\ t[2] # p[2]
          /\ p \in Range(AppliedPairs(calls))
    /\ \E q \in Range(ParsedPairs(ev)) :
          q \in Fetched(ev) /\ q \notin Range(AppliedPairs(calls))

\* the event repeats the event before it, same claim and same volume, which was
\* reconciled to its end with every call succeeding, and nobody else has changed a
\* tag since that event was taken
SecondPass == again # NotQueried /\ extChanges = pre.extChanges

\* C2, as stated (idempotence): when an event is reconciled with every call
\* succeeding and the same event is reconciled again right after it, with no change
\* to the tags by anyone else in between and every call succeeding, the second pass
\* issues no apply call and finds every declared pair existing
C2_SecondPassAppliesNothing ==
    (Reconciled /\ ~ApplyFailed /\ SecondPass) =>
        /\ Applies = <<>>
        /\ tagsExisting = pre.tagsExisting + Len(ParsedPairs(ev))

\* the calls to the provider (EC2) among the calls of the event
ProviderCalls == SelectSeq(calls, LAMBDA c : c.op \in {"DescribeVolumes", "CreateTags"})

\* the counters other than the events-processed counter are as before the event
OtherCountersUnchanged ==
    /\ tagsAdded = pre.tagsAdded
    /\ tagsExisting = pre.tagsExisting
    /\ volumesTagged = pre.volumesTagged
    /\ processingErrors = pre.processingErrors

\* C3: for every event whose claim lacks the provisioner-marker annotation or carries
\* another value than the supported backend, no provider call (tag fetch or tag
\* apply) is issued while the event is processed, and the event changes no tag
C3_NoProviderCallWithoutMarker ==
    (IsEvent /\ ~HasEBSMarker(ev)) =>
        /\ ProviderCalls = <<>>
        /\ remote = untouched
        /\ tagsAdded = pre.tagsAdded
        /\ tagsExisting = pre.tagsExisting
        /\ volumesTagged = pre.volumesTagged

\* C3, witness: an added or modified claim of another provisioner that declares
\* tags and is bound to an existing EBS volume was handled, the lookup included
C3_Witness ==
    /\ Triggering
    /\ ev.pv.kind = "ebs"
    /\ splitVol(ev.pv.id).ok
    /\ \E k \in DOMAIN ev.ann : k = ProvisionerKey /\ ev.ann[k] # "kubernetes.io/aws-ebs"
    /\ TagListOf(ev) # <<>>
    /\ ~dryrun
    /\ Len(calls) = 1
    /\ status = "running"

\* C4, as stated: for every event of a kind other than added or modified, no volume
\* lookup, no provider fetch and no apply call is made, no counter other than the
\* events-processed counter changes, and the loop continues with the next event
C4_OtherKindsIgnoredLoopContinues ==
    (IsEvent /\ ev.type \notin {"ADDED", "MODIFIED"}) =>
        /\ calls = <<>>
        /\ OtherCountersUnchanged
        /\ eventsProcessed = pre.eventsProcessed + 1
        /\ remote = untouched
        /\ status = "running"

\* C4, amended: for every event of a kind other than added or modified, no volume
\* lookup, no provider fetch and no apply call is made and no counter other than
\* the events-processed counter changes; the loop continues with the next event
\* when the payload is a claim object, and the process terminates when it is not
C4_OtherKindsIgnored ==
    (IsEvent /\ ev.type \notin {"ADDED", "MODIFIED"}) =>
        /\ calls = <<>>
        /\ OtherCountersUnchanged
        /\ eventsProcessed = pre.eventsProcessed + 1
        /\ remote = untouched
        /\ status = IF ev.isPVC THEN "running" ELSE "fatal"

\* C4, witness: a deleted event for an EBS claim that declares tags was handled
C4_Witness ==
    /\ IsEvent
    /\ ev.type = "DELETED"
    /\ ev.isPVC
    /\ HasEBSMarker(ev)
    /\ TagListOf(ev) # <<>>
    /\ ~dryrun
    /\ eventsProcessed = pre.eventsProcessed + 1

\* C5: in dry-run mode no apply call is ever issued: the program changes no tag of
\* any volume, and the tags-added and volumes-tagged counters stay at their
\* initial value
C5_DryRunAppliesNothing ==
    dryrun =>
        /\ CallsOf(calls, "CreateTags") = <<>>
        /\ remote = untouched
        /\ tagsAdded = 0
        /\ volumesTagged = 0

\* C5, witness: in dry-run mode, a second event was handled whose claim declares a
\* pair its volume lacks
C5_Witness ==
    /\ dryrun
    /\ ReachedTagList
    /\ splitVol(ev.pv.id).ok
    /\ \E p \in Range(ParsedPairs(ev)) : p \notin remote[TargetVol(ev)]
    /\ eventsProcessed = 2
    /\ status = "running"

\* the state in which the last event arrived, as the loop takes it
PreState ==
    [remote |-> pre.remote, eventsProcessed |-> pre.eventsProcessed,
     tagsAdded |-> pre.tagsAdded, tagsExisting |-> pre.tagsExisting,
     volumesTagged |-> pre.volumesTagged, processingErrors |-> pre.processingErrors,
     status |-> "running", pc |-> "take", local |-> NoLocal, calls |-> <<>>, sessions |-> <<>>,
     checked |-> <<>>]

\* the state in which the same event, with the same answer of the lookup, leaves a
\* run without dry-run in which every call succeeds
NormalRun == handleEvent(PreState, FALSE, ev, ev.pv)

\* C6, as stated: dry-run leaves out the apply calls only. For every event handled
\* in dry-run mode, the lookup, the remote tag fetch, the pairs diffed against the
\* remote tags, the processing-error counter and the existing counter are those of
\* a run without dry-run on the same event in which every call succeeds
C6_DryRunSkipsApplyOnly ==
    (IsEvent /\ dryrun) =>
        /\ CallsOf(calls, "GetPV") = CallsOf(NormalRun.calls, "GetPV")
        /\ CallsOf(calls, "DescribeVolumes") = CallsOf(NormalRun.calls, "DescribeVolumes")
        /\ checked = NormalRun.checked
        /\ processingErrors = NormalRun.processingErrors
        /\ tagsExisting = NormalRun.tagsExisting

\* C6, amended: dry-run leaves out the whole reconciliation. An event that does not
\* reach the tag list (kind filter, payload check, volume lookup, provisioner filter,
\* tag-list annotation absent or empty) is handled exactly as without dry-run; for an
\* event that does, nothing happens after the lookup: no session, no remote tag
\* fetch, no token is parsed or counted as an error, no pair is diffed, the existing
\* counter does not move, and no apply call is issued
C6_DryRunSkipsReconciliation ==
    (IsEvent /\ dryrun) =>
        IF ReachedTagList
        THEN /\ Len(calls) = 1
             /\ calls[1].op = "GetPV"
             /\ sessions = <<>>
             /\ checked = <<>>
             /\ OtherCountersUnchanged
             /\ eventsProcessed = pre.eventsProcessed + 1
             /\ remote = untouched
             /\ status = "running"
        ELSE /\ calls = NormalRun.calls
             /\ sessions = NormalRun.sessions
             /\ checked = NormalRun.checked
             /\ eventsProcessed = NormalRun.eventsProcessed
             /\ tagsAdded = NormalRun.tagsAdded
             /\ tagsExisting = NormalRun.tagsExisting
             /\ volumesTagged = NormalRun.volumesTagged
             /\ processingErrors = NormalRun.processingErrors
             /\ status = NormalRun.status
             /\ remote = untouched

\* C6, witness: in dry-run mode an event was handled whose tag list holds a malformed
\* token and a pair the volume lacks, and its volume id is of the URL form
C6_Witness ==
    /\ dryrun
    /\ ReachedTagList
    /\ splitVol(ev.pv.id).ok
    /\ \E i \in DOMAIN TokensOf(ev) : ~WellFormed(TokensOf(ev)[i])
    /\ \E p \in Range(ParsedPairs(ev)) : p \notin remote[TargetVol(ev)]
    /\ processingErrors = pre.processingErrors

\* C7, as stated: for every tag list and separator that are reconciled, the entries
\* checked against the remote tags are exactly the tokens with exactly one "="
C7_CheckedIsWellFormedTokens ==
    Reconciled => checked = ParsedPairs(ev)

\* C7, amended: for every tag list and separator that are reconciled, the entries
\* checked against the remote tags are, in order, the tokens with exactly one "="
\* (tokens with none or with two or more are left out and never stop the tokens
\* around them from being checked), up to and including the first one whose apply
\* call fails; all of them when no apply call fails
C7_CheckedIsWellFormedUntilFailure ==
    Reconciled =>
        /\ Len(checked) <= Len(ParsedPairs(ev))
        /\ checked = SubSeq(ParsedPairs(ev), 1, Len(checked))
        /\ ~ApplyFailed => checked = ParsedPairs(ev)
        /\ ApplyFailed =>
              /\ Len(checked) > 0
              /\ checked[Len(checked)] = AppliedPairs(calls)[Len(Applies)]
              /\ ~Applies[Len(Applies)].ok

\* C7, witness: a tag list was reconciled, with the default separator, in which a
\* token with exactly one "=" and a key stands between a non-empty token without "="
\* and a token with two "="
C7_Witness ==
    /\ Reconciled
    /\ ~ApplyFailed
    /\ SeparatorFor(ev) = <<",">>
    /\ \E i, j, l \in DOMAIN TokensOf(ev) :
          /\ i < j /\ j < l
          /\ TokensOf(ev)[i] # <<>> /\ CountEq(TokensOf(ev)[i]) = 0
          /\ WellFormed(TokensOf(ev)[j]) /\ PairOf(TokensOf(ev)[j])[1] # <<>>
          /\ CountEq(TokensOf(ev)[l]) >= 2
    /\ Len(checked) = 1

\* the position of the token at which the pass over the tag list ended: the token
\* whose apply call failed, or the last token
LastTokenReached(e) ==
    LET T == TokensOf(e)
        absent == {i \in DOMAIN T : WellFormed(T[i]) /\ PairOf(T[i]) \notin Fetched(e)}
        failedAt == {i \in absent : Cardinality({j \in absent : j <= i}) = Len(Applies)}
    IN IF ApplyFailed /\ failedAt # {}
       THEN CHOOSE i \in failedAt : TRUE
       ELSE Len(T)

\* the malformed tokens among the first n tokens of the tag list
MalformedUpTo(e, n) == {i \in 1..n : ~WellFormed(TokensOf(e)[i])}

\* C8, as stated: for every processed claim with a non-empty tag list, the error
\* counter rises, on account of parsing, by exactly the number of tokens of the tag
\* list that have no "=" or two or more
C8_ErrorsCountMalformedTokens ==
    ReachedTagList =>
        processingErrors - (IF FetchFailed THEN 1 ELSE 0)
            = pre.processingErrors + Cardinality(MalformedUpTo(ev, Len(TokensOf(ev))))

\* C8, amended: for every claim with a non-empty tag list whose reconciliation runs
\* (not dry-run, fetch succeeded), each malformed token that is reached raises the
\* error counter by exactly one: the counter rises by the number of malformed tokens
\* of the whole list when no apply call fails, and of the tokens before the pair
\* whose apply call fails otherwise. When the fetch fails no token is examined and
\* the counter rises by one, for the fetch; in dry-run mode, or when the volume id
\* cannot be decomposed or the AWS session cannot be created, no token is examined
\* and the counter does not move
C8_ErrorsCountMalformedTokensReached ==
    ReachedTagList =>
        processingErrors - pre.processingErrors =
            IF Reconciled THEN Cardinality(MalformedUpTo(ev, LastTokenReached(ev)))
            ELSE IF FetchFailed THEN 1
            ELSE 0

\* C8, witness: after an event that counted an error, a tag list was reconciled
\* that has a malformed token before a well-formed one, which was counted, or a
\* malformed token after the pair whose apply call failed, which was not
C8_Witness ==
    /\ Reconciled
    /\ \/ /\ ~ApplyFailed
          /\ Len(checked) > 0
          /\ ~WellFormed(TokensOf(ev)[1])
          /\ processingErrors = pre.processingErrors + 1
       \/ /\ ApplyFailed
          /\ ~WellFormed(TokensOf(ev)[Len(TokensOf(ev))])
          /\ processingErrors = pre.processingErrors
    /\ eventsProcessed = 2
    /\ pre.processingErrors > 0

\* C9: when the remote tag fetch fails, the claim's reconciliation is abandoned: the
\* fetch was issued once, no pair is diffed and no apply call is issued, the
\* processing-error counter rises by one, nothing else changes, and the process
\* goes on to the next event
C9_FetchFailureAbandonsClaim ==
    (IsEvent /\ FetchFailed) =>
        /\ Len(CallsOf(calls, "DescribeVolumes")) = 1
        /\ Applies = <<>>
        /\ checked = <<>>
        /\ processingErrors = pre.processingErrors + 1
        /\ eventsProcessed = pre.eventsProcessed + 1
        /\ tagsAdded = pre.tagsAdded
        /\ tagsExisting = pre.tagsExisting
        /\ volumesTagged = pre.volumesTagged
        /\ remote = untouched
        /\ status = "running"

\* C9, witness: the fetch failed for a claim that declares a pair its volume lacks
\* and a malformed token, as the second event
C9_Witness ==
    /\ IsEvent
    /\ FetchFailed
    /\ ReachedTagList
    /\ \E p \in Range(ParsedPairs(ev)) : p \notin remote[TargetVol(ev)]
    /\ \E i \in DOMAIN TokensOf(ev) : ~WellFormed(TokensOf(ev)[i])
    /\ eventsProcessed = 2

\* the process has ended
Ended == status # "running"

\* C10: when an apply call fails the process terminates on its response: the failed call is the last
\* call of the event, the tags-added counter counts the calls that succeeded before
\* it and not the failed one, the volumes-tagged counter is not incremented, and
\* once the process has ended no event is handled and no counter moves
C10_ApplyFailureIsFatal ==
    /\ []((IsEvent /\ ApplyFailed) =>
            /\ status = "fatal"
            /\ ~calls[Len(calls)].ok
            /\ calls[Len(calls)].op = "CreateTags"
            /\ \A i \in 1..(Len(calls) - 1) : calls[i].ok
            /\ tagsAdded = pre.tagsAdded + Len(Applies) - 1
            /\ volumesTagged = pre.volumesTagged
            /\ eventsProcessed = pre.eventsProcessed + 1)
    /\ [][Ended =>
            /\ status' = status
            /\ ev' = NoEvent \/ ev' = ev
            /\ UNCHANGED <<eventsProcessed, tagsAdded, tagsExisting, volumesTagged,
                           processingErrors>>]_vars

\* C10, witness: the first of two apply calls failed after an earlier event had
\* been handled, and the second pair was not applied
C10_Witness ==
    /\ ApplyFailed
    /\ Len(Applies) = 1
    /\ Len(Missing(ev)) = 2
    /\ status = "fatal"
    /\ eventsProcessed = 2

\* C11: when the volume lookup fails for an added or modified event, the event is
\* skipped: the lookup is the only call made (no provider fetch, no apply call), the
\* processing-error counter rises by one, no other counter than the events-processed
\* counter and no tag changes, and the process stays in the loop
C11_LookupFailureSkipsEvent ==
    (Triggering /\ ev.pv.kind = "notfound") =>
        /\ Len(calls) = 1
        /\ calls[1].op = "GetPV" /\ ~calls[1].ok
        /\ ProviderCalls = <<>>
        /\ processingErrors = pre.processingErrors + 1
        /\ eventsProcessed = pre.eventsProcessed + 1
        /\ tagsAdded = pre.tagsAdded
        /\ tagsExisting = pre.tagsExisting
        /\ volumesTagged = pre.volumesTagged
        /\ remote = untouched
        /\ status = "running"

\* C11, witness: outside dry-run mode the lookup failed for an EBS claim that
\* declares tags, as the second event after an earlier error
C11_Witness ==
    /\ Triggering
    /\ ev.pv.kind = "notfound"
    /\ HasEBSMarker(ev)
    /\ TagListOf(ev) # <<>>
    /\ ~dryrun
    /\ eventsProcessed = 2
    /\ processingErrors = 2

\* the claim declares no tag list, or an empty one
NoTagList(e) == TagListOf(e) = <<>>

\* C12, as stated: for every added or modified event whose claim has no tag-list
\* annotation or an empty one, and whose volume lookup is answered (C11 covers the
\* lookups that fail), no provider fetch or apply call is issued, the
\* processing-error counter is unchanged, and the loop continues
C12_NoTagListIsSilentNoOp ==
    (Triggering /\ NoTagList(ev) /\ ev.pv.kind # "notfound") =>
        /\ ProviderCalls = <<>>
        /\ processingErrors = pre.processingErrors
        /\ status = "running"

\* C13, as stated: for every added or modified event whose claim fails the
\* provisioner filter, whatever the lookup of its volume answers (no volume, or a
\* volume of another storage type), the processing-error counter is unchanged, the
\* process does not terminate, and the next event is processed
C13_FilteredClaimRaisesNoError ==
    (Triggering /\ ~HasEBSMarker(ev)) =>
        /\ processingErrors = pre.processingErrors
        /\ status = "running"

\* C14, as stated: the volumes-tagged counter rises by one for an event in which at
\* least one pair was newly applied, and not at all for any other event
C14_VolumeCountedIffPairApplied ==
    IsEvent =>
        volumesTagged = pre.volumesTagged
                          + (IF \E i \in DOMAIN Applies : Applies[i].ok THEN 1 ELSE 0)

\* C14, amended: the volumes-tagged counter rises by exactly one for an event whose
\* pass over the tag list issued at least one apply call and none of them failed,
\* however many pairs were applied; it does not move for any other event: no apply
\* call issued (all pairs existing, all tokens malformed, fetch failed, dry-run,
\* claim filtered out), or an apply call failed, which ends the process before the
\* counter is touched even when earlier pairs of the event were applied
C14_VolumeCountedOnceWhenPassCompletes ==
    IsEvent =>
        volumesTagged = pre.volumesTagged
                          + (IF Applies # <<>> /\ ~ApplyFailed THEN 1 ELSE 0)

\* C14, witness: two pairs were applied in one event, after an earlier event had
\* counted a volume, and the counter rose by one
C14_Witness ==
    /\ Reconciled
    /\ Len(Applies) = 2
    /\ ~ApplyFailed
    /\ tagsAdded = pre.tagsAdded + 2
    /\ pre.volumesTagged = 1
    /\ volumesTagged = 2

\* scheme "://" zone "/" volume-id
Identifier(scheme, zone, id) == scheme \o <<":", "/", "/">> \o zone \o <<"/">> \o id

\* the zone without its last character if that is a lowercase letter
RegionOf(zone) ==
    IF zone # <<>> /\ zone[Len(zone)] \in LowerCase THEN SubSeq(zone, 1, Len(zone) - 1) ELSE zone

\* the fetches of the event
Fetches == CallsOf(calls, "DescribeVolumes")

\* the AWS sessions the event asked for
Sessions == sessions

\* the identifier of the event was decomposed into region and vol: the session is
\* asked for in the region and, when it is created, the fetch is issued for volume
\* vol in the region; when it is not, the process ends without a fetch
DecomposedInto(region, vol) ==
    /\ Len(Sessions) = 1
    /\ Sessions[1].region = region
    /\ IF Sessions[1].ok
       THEN /\ Len(Fetches) = 1
            /\ Fetches[1].region = region
            /\ Fetches[1].vol = vol
       ELSE /\ Fetches = <<>>
            /\ status = "panic"

\* C15: for every identifier scheme://zone/volume-id that reaches the decomposition,
\* the result is (region, volume-id), where volume-id is the fourth slash-separated
\* segment unchanged and region is the zone with exactly one trailing lowercase
\* letter removed if it ends in one, the zone unchanged otherwise: the session is
\* asked for in that region and the fetch, issued once the session exists, is for
\* that volume in that region; aws://eu-west-1b/vol-0123456789abcdef0 yields
\* (eu-west-1, vol-0123456789abcdef0)
C15_DecompositionOfIdentifier ==
    (ReachedTagList /\ ~dryrun) =>
        /\ \A s \in Schemes, z \in Zones(MaxZoneLen), v \in VolNames :
              ev.pv.id = Identifier(s, z, v) => DecomposedInto(RegionOf(z), v)
        /\ ev.pv.id = ExampleVolumeID =>
              DecomposedInto(<<"e", "u", "-", "w", "e", "s", "t", "-", "1">>,
                             <<"v", "o", "l", "-", "0", "1", "2", "3", "4", "5", "6", "7", "8",
                               "9", "a", "b", "c", "d", "e", "f", "0">>)

\* C15, witness: the fetch was issued for an identifier whose zone ends in two
\* lowercase letters, with the region keeping the first of them
C15_Witness ==
    /\ ReachedTagList
    /\ ev.pv.id = Identifier(<<"a", "w", "s">>, <<"1", "e", "u">>, <<"v", "2">>)
    /\ Len(Fetches) = 1
    /\ Fetches[1].ok
    /\ Fetches[1].region = <<"1", "e">>
    /\ Fetches[1].vol = <<"v", "2">>

\* the declared pairs the fetched tags hold, in list order
Present(e) == SelectSeq(ParsedPairs(e), LAMBDA p : p \in Fetched(e))

\* C16: within one event at most one remote tag fetch is issued; every apply call
\* comes after it and only when it succeeded; every pair is decided against the tags
\* as fetched and not as they are after the applies of the event: the apply calls
\* are, one pair per call and in tag-list order, for the declared pairs the fetched
\* tags lack, and a pass that ends counts as existing the declared pairs the
\* fetched tags hold
C16_ProviderCallOrder ==
    IsEvent =>
        /\ Len(Fetches) <= 1
        /\ \A i \in DOMAIN ProviderCalls :
              ProviderCalls[i].op = "CreateTags" =>
                  /\ i > 1
                  /\ ProviderCalls[1].op = "DescribeVolumes"
                  /\ ProviderCalls[1].ok
                  /\ ProviderCalls[i].vol = ProviderCalls[1].vol
        /\ Applies # <<>> =>
              /\ Len(Applies) <= Len(Missing(ev))
              /\ AppliedPairs(calls) = SubSeq(Missing(ev), 1, Len(Applies))
        /\ (Reconciled /\ ~ApplyFailed) =>
              /\ Len(Applies) = Len(Missing(ev))
              /\ tagsExisting = pre.tagsExisting + Len(Present(ev))

\* C16, witness: a pair was counted as existing whose tag an apply call of the same
\* event had overwritten before the pair was decided, nobody else touching the tags
C16_Witness ==
    /\ Reconciled
    /\ ~ApplyFailed
    /\ extChanges = pre.extChanges
    /\ Len(Applies) = 1
    /\ Len(Present(ev)) = 1
    /\ Present(ev)[1] \notin remote[TargetVol(ev)]
    /\ \E i, j \in DOMAIN ParsedPairs(ev) :
          i < j /\ ParsedPairs(ev)[i] = AppliedPairs(calls)[1] /\ ParsedPairs(ev)[j] = Present(ev)[1]
    /\ tagsExisting = pre.tagsExisting + 1

\* the last event's payload was not a claim object
NotAClaim == IsEvent /\ ~ev.isPVC

\* C17: an event whose payload is not a claim object ends the process, whatever its
\* kind: the events-processed counter was incremented for it, no volume lookup and
\* no provider call was made, nothing else changed; and after it no event is
\* processed and no counter moves
C17_UnexpectedPayloadIsFatal ==
    /\ [](NotAClaim =>
            /\ status = "fatal"
            /\ calls = <<>>
            /\ eventsProcessed = pre.eventsProcessed + 1
            /\ OtherCountersUnchanged
            /\ remote = untouched)
    /\ [][NotAClaim =>
            /\ status' = "fatal"
            /\ ev' = NoEvent \/ ev' = ev
            /\ calls' = <<>>
            /\ UNCHANGED <<eventsProcessed, tagsAdded, tagsExisting, volumesTagged,
                           processingErrors>>]_vars

\* C17, witness: an added event without a claim object arrived as the second event
C17_Witness ==
    /\ NotAClaim
    /\ ev.type = "ADDED"
    /\ status = "fatal"
    /\ eventsProcessed = 2

\* the loop ended because the watch stream ended
StreamEnded == status = "returned"

\* the process ended because the watch could not be set up at startup
StartupFailed == status = "fatal" /\ pc \in {"start", "watch"}

\* C18, as stated: the loop does not end while the stream is open and no event is
\* fatal, and when the watch stream ends the process terminates with a non-zero
\* exit status, as it does when the watch cannot be opened at startup
C18_StreamEndExitsNonZero ==
    /\ StartupFailed => ExitCode(status) # 0 /\ taken = 0
    /\ StreamEnded => ExitCode(status) # 0

\* the keys of a tag set
KeysOf(tags) == {t[1] : t \in tags}

\* the keys the tag list of the claim names
NamedKeys(e) == {p[1] : p \in Range(ParsedPairs(e))}

\* C19: the program removes no tag. The only calls it makes are the volume lookup,
\* the tag fetch and create/overwrite calls; at every moment every
\* volume has every tag key it would have had the event in progress changed nothing;
\* and after an event a tag that is not on its volume with the value it would have is
\* a tag of the claim's volume whose key the claim's tag list names, overwritten by
\* a successful apply call for that key
C19_NoTagRemoval ==
    /\ \A i \in DOMAIN calls : calls[i].op \in {"GetPV", "DescribeVolumes", "CreateTags"}
    /\ \A vol \in DOMAIN remote : KeysOf(untouched[vol]) \subseteq KeysOf(remote[vol])
    /\ IsEvent =>
          \A vol \in DOMAIN remote :
              \A t \in untouched[vol] \ remote[vol] :
                  /\ Reconciled
                  /\ vol = TargetVol(ev)
                  /\ t[1] \in NamedKeys(ev)
                  /\ \E i \in DOMAIN Applies :
                        Applies[i].ok /\ Applies[i].vol = vol /\ Applies[i].key = t[1]

\* C19, witness: an apply call overwrote one tag of a volume that carried a second
\* tag, whose key the claim does not name, and the second tag is as it was
C19_Witness ==
    /\ Reconciled
    /\ \E i \in DOMAIN Applies : Applies[i].ok
    /\ \E t \in untouched[TargetVol(ev)] :
          t[1] \in NamedKeys(ev) /\ t \notin remote[TargetVol(ev)]
    /\ \E t \in untouched[TargetVol(ev)] :
          t[1] \notin NamedKeys(ev) /\ t \in remote[TargetVol(ev)]

\* C20: in every reachable state the tags-added counter equals the number of apply
\* calls that returned successfully, the events-processed counter equals the number
\* of events taken from the stream, whatever became of them, the volumes-tagged
\* counter exceeds neither of the two, and no counter is below what it was when
\* the last event was taken
C20_CountersConsistent ==
    /\ tagsAdded = applied
    /\ eventsProcessed = taken
    /\ volumesTagged <= tagsAdded
    /\ volumesTagged <= eventsProcessed
    /\ eventsProcessed >= pre.eventsProcessed
    /\ tagsAdded >= pre.tagsAdded
    /\ tagsExisting >= pre.tagsExisting
    /\ volumesTagged >= pre.volumesTagged
    /\ processingErrors >= pre.processingErrors

\* C20, witness: after an event that applied two pairs and counted its volume, EC2
\* has created the tag of a third apply call whose response the program has not
\* yet received, and no counter shows it
C20_Witness ==
    /\ pc = "return"
    /\ local.ok
    /\ Len(Applies) = 1
    /\ Applies[1].ok
    /\ <<Applies[1].key, Applies[1].value>> \in remote[Applies[1].vol]
    /\ eventsProcessed = 2
    /\ tagsAdded = 2
    /\ volumesTagged = 1

====
